---- MODULE Spec2Model ----
(***************************************************************************)
(* Model of the CAFE observation error model (cafe/error_model.cpp):       *)
(*   - the text format of an error-model file, operator>> and operator<<;  *)
(*   - the family's error-model store and the per-species attachments      *)
(*     (set_error_matrix_from_file, remove_error_model, free_error_model); *)
(*   - the constraint part of the error-estimation objective               *)
(*     (__loglikelihood_pairs_from_double_measure);                        *)
(*   - the measure-file readers, the size distribution and the restart     *)
(*     loop of the estimators (read_freq_from_measures,                    *)
(*     get_size_probability_distribution, read_error_double_measure,       *)
(*     estimate_error_double_measure, estimate_error_true_measure);        *)
(* and of the tree side the error model is used with: the birth-death      *)
(* kernel, the matrix cache, the pruning engine, pvalue,                   *)
(* update_branchlength, tree traversal and the leaf rows of the Viterbi    *)
(* likelihood matrix.                                                      *)
(*                                                                         *)
(* Doubles are fixed-point integers in thousandths (0.2 is 200).  A text   *)
(* line is the sequence of its space-separated tokens; a token is          *)
(*   <<"kv", n>>   the text  maxcnt:n                                      *)
(*   <<"word">>    the text  cntdiff                                       *)
(*   <<"int", n>>  an integer literal                                      *)
(*   <<"num", v>>  a decimal literal of value v thousandths                *)
(*   <<"nan">>     the text  #nan                                          *)
(*                                                                         *)
(* Kernel probabilities are exact fractions; branch lengths handed to the  *)
(* kernel and the cache are in half units, those of update_branchlength    *)
(* in quarter units.  Scores of the simplex search are integers with two   *)
(* distinguished values for +infinity and NaN.  The int of the size        *)
(* distribution is eight bits wide (INT_MAX), so that its overflow is in   *)
(* reach of the frequencies of the model.                                  *)
(***************************************************************************)
EXTENDS Integers, Sequences, FiniteSets, TLC

VARIABLES
  \* one family and one tree
  species,      \* family->species: the species names
  index,        \* family->index: species -> id of its tree leaf
  errors,       \* family->errors: NULL or the list of loaded models
  error_ptr,    \* family->error_ptr: NULL or one model reference per species
  errormodel,   \* pcnode->errormodel of every tree node
  allocated,    \* number of ErrorStructs allocated so far
  call,         \* the last call made and how it ended
  \* reading and writing one error-model file
  io_pc, io_text, io_em0, io_read, io_out, io_read2, io_out2,
  \* one evaluation of the estimation objective
  est_in, est_out,
  \* error estimation
  meas,         \* the two measure files and what has been read from them
  run,          \* the restart loop around the simplex search
  \* the tree side
  kern,         \* one call of compute_birthdeath_rates
  bdc,          \* the matrix cache, the tree it serves and the last operation
  like,         \* one evaluation of the pruning engine
  pval,         \* one call of pvalue
  branch,       \* one call of update_branchlength
  trav,         \* one traversal of a tree
  leaf          \* the likelihood rows of one leaf

famvars == <<species, index, errors, error_ptr, errormodel, allocated, call>>
iovars == <<io_pc, io_text, io_em0, io_read, io_out, io_read2, io_out2>>
estvars == <<est_in, est_out>>
estimvars == <<meas, run>>
treevars == <<kern, bdc, like, pval, branch, trav, leaf>>
vars == <<famvars, iovars, estvars, estimvars, treevars>>

\* ------------------------------------------------------------------ bounds
MaxCnt == 3            \* largest maxcnt written in a generated file
MaxLoads == 2          \* number of models ever allocated in one behaviour
RangeMax == 2          \* range.max handed to set_error_matrix_from_file
MaxParam == 3          \* estimation parameters range over -1..MaxParam tenths
MaxAtLimit == 2        \* simplex runs of one estimation that stop at their iteration limit
MaxLines == 2          \* data lines of a measure file
MaxT == 2              \* longest branch handed to the kernel, in half units
MaxSize == 3           \* largest family size of a matrix or a likelihood vector
MaxEntries == 2        \* entries of the matrix cache
MaxDist == 3           \* entries of a conditional distribution
MaxLeaves == 5         \* leaves of a traversed tree

NULL == 0               \* a NULL model reference
NoArray == <<>>         \* a NULL array pointer (family->errors, family->error_ptr)
Crash == -1            \* outcome of an out-of-allocation read: the process dies

\* ------------------------------------------------------- text and numbers
Max2(a, b) == IF a >= b THEN a ELSE b

\* atoi: leading integer part of the token text, 0 when there is none
atoi(tok) ==
  CASE tok[1] = "int" -> tok[2]
    [] tok[1] = "num" -> tok[2] \div 1000
    [] OTHER -> 0

\* atof: value of the token text in thousandths, 0 when it is not a number
atof(tok) ==
  CASE tok[1] = "int" -> tok[2] * 1000
    [] tok[1] = "num" -> tok[2]
    [] OTHER -> 0

\* ost << std::setprecision(2) << double: two significant digits
\* (a tie is rounded to the even digit, as printf does for exact ties)
RoundTo(v, unit) ==
  LET q == v \div unit
      r == v % unit
  IN  IF 2 * r > unit \/ (2 * r = unit /\ q % 2 = 1) THEN (q + 1) * unit ELSE q * unit

Precision2(v) ==
  IF v < 100 THEN v
  ELSE IF v < 1000 THEN RoundTo(v, 10)
  ELSE RoundTo(v, 100)

\* the token that operator<< prints for a matrix cell
FormatDouble(v) ==
  LET p == Precision2(v)
  IN  IF p % 1000 = 0 THEN <<"int", p \div 1000>> ELSE <<"num", p>>

\* ------------------------------------------------------------ ErrorStruct
\* memory_new_2dim: a zeroed (n+1) x (n+1) matrix, errormatrix[row][col]
memory_new_2dim(n) == [r \in 0..n |-> [c \in 0..n |-> 0]]

\* a calloc'ed ErrorStruct whose maxfamilysize has been preset
NewErrorStruct(name, maxfs) ==
  [errorfilename |-> name, maxfamilysize |-> maxfs, fromdiff |-> 0, todiff |-> 0,
   errormatrix |-> memory_new_2dim(0)]

\* column j of m replaced on the rows of DOMAIN val by val[r]; a column
\* outside the allocation is not part of the matrix
SetColumn(m, n, j, val) ==
  [r \in 0..n |-> [c \in 0..n |-> IF c = j /\ r \in DOMAIN val THEN val[r] ELSE m[r][c]]]

\* rows i+j written for family size j: fromdiff <= i <= todiff, guarded as
\* in the source by 0 <= i+j <= maxfamilysize
BandRows(em, j) ==
  {r \in 0..em.maxfamilysize : em.fromdiff <= r - j /\ r - j <= em.todiff}

\* "copy previous line's error model": errormatrix[i+j][j] =
\* errormatrix[i+j-1][j-1]; row -1 is outside the allocation, the value read
\* there is the garbage g
CopyPreviousRow(em, j, g) ==
  LET prev == [r \in BandRows(em, j) |->
                 IF r - 1 < 0 THEN g ELSE em.errormatrix[r - 1][j - 1]]
  IN  [em EXCEPT !.errormatrix = SetColumn(em.errormatrix, em.maxfamilysize, j, prev)]

\* the copy reads errormatrix[-1][j-1]
CopyReadsOutside(em, j) == 0 \in BandRows(em, j)

\* StoreRow with the file column index k starting at 0 instead of 1
StoreRow_k0(em, j, data) ==
  LET field == [r \in BandRows(em, j) |-> atof(data[(r - j) - em.fromdiff + 1])]
  IN  [em EXCEPT !.errormatrix = SetColumn(em.errormatrix, em.maxfamilysize, j, field)]

\* "read error model and save in matrix row": errormatrix[i+j][j] = atof(data[k])
StoreRow(em, j, data) ==
  LET field == [r \in BandRows(em, j) |-> atof(data[(r - j) - em.fromdiff + 2])]
  IN  [em EXCEPT !.errormatrix = SetColumn(em.errormatrix, em.maxfamilysize, j, field)]

\* the row is stored in a column beyond the allocation
StoreWritesOutside(em, j) == j > em.maxfamilysize /\ BandRows(em, j) # {}

\* ------------------------------------------------------------- operator>>
\* One data line of the while loop at the source's line 166.  st is
\* [em, j, status, outside]; ndebug tells whether assert is compiled out;
\* g is the value an out-of-allocation read yields, or Crash.
ReadLine(st, data, ndebug, g) ==
  LET em == st.em
      j == st.j
      col1 == atoi(data[1])
  IN  IF Len(data) # (em.todiff - em.fromdiff) + 2 THEN st
      ELSE IF j # 0 /\ j < col1
        \* while (j && j < col1) { copy; i++; }  -- j never changes
        THEN IF CopyReadsOutside(em, j) /\ g = Crash
               THEN [st EXCEPT !.status = "crash"]
               ELSE [st EXCEPT !.em = CopyPreviousRow(em, j, g), !.status = "hang"]
      ELSE IF em.fromdiff <= em.todiff /\ j # col1 /\ ~ndebug
        THEN [st EXCEPT !.status = "assert"]
      ELSE [st EXCEPT !.em = StoreRow(em, j, data), !.j = j + 1,
                      !.outside = st.outside \/ StoreWritesOutside(em, j)]

RECURSIVE ReadLines(_, _, _, _, _)
ReadLines(st, text, k, ndebug, g) ==
  IF k > Len(text) \/ st.status # "ok" THEN st
  ELSE ReadLines(ReadLine(st, text[k], ndebug, g), text, k + 1, ndebug, g)

\* the loop at the source's line 193: fill till the end of the matrix
RECURSIVE FillTail(_, _)
FillTail(st, g) ==
  IF st.status # "ok" \/ st.j = 0 \/ st.j > st.em.maxfamilysize THEN st
  ELSE IF CopyReadsOutside(st.em, st.j) /\ g = Crash
    THEN [st EXCEPT !.status = "crash"]
  ELSE FillTail([st EXCEPT !.em = CopyPreviousRow(st.em, st.j, g), !.j = st.j + 1], g)

\* operator>>(istream, ErrorStruct): em0 is the struct passed in
ReadErrorModel(text, em0, ndebug, g) ==
  IF Len(text) = 0 THEN [em |-> em0, j |-> 0, status |-> "empty", outside |-> FALSE]
  ELSE
    LET file_row_count == text[1][1][2]
        maxfs == Max2(em0.maxfamilysize, file_row_count)
        hasdiff == Len(text) >= 2
    IN  IF hasdiff /\ Len(text[2]) < 2
          THEN [em |-> em0, j |-> 0, status |-> "throw", outside |-> FALSE]
        ELSE
          LET em1 == [em0 EXCEPT
                        !.maxfamilysize = maxfs,
                        !.fromdiff = IF hasdiff THEN atoi(text[2][2]) ELSE em0.fromdiff,
                        !.todiff = IF hasdiff THEN atoi(text[2][Len(text[2])]) ELSE em0.todiff,
                        !.errormatrix = memory_new_2dim(maxfs)]
              st0 == [em |-> em1, j |-> 0, status |-> "ok", outside |-> FALSE]
          IN  FillTail(ReadLines(st0, text, 3, ndebug, g), g)

\* ------------------------------------------------------------- operator<<
WriteRow(em, j) ==
  <<<<"int", j>>>> \o
  [k \in 1..(em.todiff - em.fromdiff + 1) |->
     LET i == em.fromdiff + k - 1
     IN  IF 0 <= i + j /\ i + j <= em.maxfamilysize
           THEN FormatDouble(em.errormatrix[i + j][j])
           ELSE <<"nan">>]

WriteErrorModel(em) ==
  << <<<<"kv", em.maxfamilysize>>>>,
     <<<<"word">>>> \o [k \in 1..(em.todiff - em.fromdiff + 1) |-> <<"int", em.fromdiff + k - 1>>] >>
  \o [n \in 1..(em.maxfamilysize + 1) |-> WriteRow(em, n - 1)]

\* ---------------------------------------------------- error-model files
\* the probability written for offset d in the row of family size j
FieldValue(pal, j, d) == 100 * (j + 1) + 10 * (d + 3) + (IF pal = 2 THEN 3 ELSE 0)

FileRow(pal, j, from, to) ==
  <<<<"int", j>>>> \o [k \in 1..(to - from + 1) |-> <<"num", FieldValue(pal, j, from + k - 1)>>]

RECURSIVE FileRows(_, _, _, _, _)
FileRows(pal, present, from, to, j) ==
  IF \A p \in present : p < j THEN <<>>
  ELSE (IF j \in present THEN <<FileRow(pal, j, from, to)>> ELSE <<>>)
       \o FileRows(pal, present, from, to, j + 1)

FileHeader(maxcnt, from, to) ==
  << <<<<"kv", maxcnt>>>>,
     <<<<"word">>>> \o [k \in 1..(to - from + 1) |-> <<"int", from + k - 1>>] >>

File(maxcnt, from, to, present, pal) ==
  FileHeader(maxcnt, from, to) \o FileRows(pal, present, from, to, 0)

FromDiffs == {-2, -1, 0}
ToDiffs == {0, 1}
Garbage == {Crash, 0, 777}

Files ==
  { File(n, f, t, P, pal) : n \in 1..MaxCnt, f \in FromDiffs, t \in ToDiffs,
                            P \in SUBSET (0..MaxCnt + 1), pal \in {1, 2} }
  \cup { <<>>, << <<<<"kv", 2>>>> >> }

\* what the text of a generated file says
FileMaxCnt(text) == text[1][1][2]
FileFrom(text) == text[2][2][2]
FileTo(text) == text[2][Len(text[2])][2]
FilePresent(text) == {text[k][1][2] : k \in 3..Len(text)}
FileField(text, j, d) ==
  LET k == CHOOSE k \in 3..Len(text) : text[k][1][2] = j
  IN  atof(text[k][d - FileFrom(text) + 2])

NoRead == [em |-> NewErrorStruct("", 0), j |-> 0, status |-> "none", outside |-> FALSE]

IoIdle ==
  /\ io_pc = "idle" /\ io_text = <<>> /\ io_em0 = 0
  /\ io_read = NoRead /\ io_out = <<>> /\ io_read2 = NoRead /\ io_out2 = <<>>

IoStart ==
  /\ io_pc = "start"
  /\ io_text \in Files
  /\ io_em0 \in {0, MaxCnt}
  /\ io_read = NoRead /\ io_out = <<>> /\ io_read2 = NoRead /\ io_out2 = <<>>

\* ifst >> *errormodel on the chosen file
IoRead ==
  /\ io_pc = "start"
  /\ \E ndebug \in BOOLEAN, g \in Garbage :
       io_read' = ReadErrorModel(io_text, NewErrorStruct("f", io_em0), ndebug, g)
  /\ io_pc' = "read"
  /\ UNCHANGED <<io_text, io_em0, io_out, io_read2, io_out2>>

\* ost << errormodel
IoWrite ==
  /\ io_pc = "read" /\ io_read.status = "ok"
  /\ io_out' = WriteErrorModel(io_read.em)
  /\ io_pc' = "written"
  /\ UNCHANGED <<io_text, io_em0, io_read, io_read2, io_out2>>

\* the written text read back into a fresh ErrorStruct
IoReadBack ==
  /\ io_pc = "written"
  /\ \E ndebug \in BOOLEAN, g \in Garbage :
       io_read2' = ReadErrorModel(io_out, NewErrorStruct("f", 0), ndebug, g)
  /\ io_pc' = "readback"
  /\ UNCHANGED <<io_text, io_em0, io_read, io_out, io_out2>>

\* and written again
IoWriteAgain ==
  /\ io_pc = "readback" /\ io_read2.status = "ok"
  /\ io_out2' = WriteErrorModel(io_read2.em)
  /\ io_pc' = "rewritten"
  /\ UNCHANGED <<io_text, io_em0, io_read, io_out, io_read2>>


\* ------------------------------------------------- the family and its tree
\* std::tolower applied to every character of the names used here
to_lower(s) ==
  CASE s = "Dog" -> "dog"
    [] s = "Cat" -> "cat"
    [] s = "ERR.TXT" -> "err.txt"
    [] OTHER -> s

case_insensitive_equal(s1, s2) == to_lower(s1) = to_lower(s2)

Families == { <<"Dog", "Cat">>, <<"Dog", "dog">>, <<"Cat", "Dog", "dog">> }
SpeciesArgs == {"", "dog", "Dog", "cat", "rat"}
Nodes == 0..4
Leaves == <<0, 2, 4>>

\* the files on disk: a text, or Absent
Absent == <<<<"absent">>>>
DataRow(j, vals) == <<<<"int", j>>>> \o [k \in 1..Len(vals) |-> <<"num", vals[k]>>]
FileNames == {"err.txt", "ERR.TXT", "bad.txt", "empty.txt", "gap.txt", "none.txt"}
Disk(name) ==
  CASE name = "err.txt" ->
         FileHeader(2, -1, 1) \o
         << DataRow(0, <<0, 800, 200>>), DataRow(1, <<200, 600, 200>>), DataRow(2, <<200, 800, 0>>) >>
    [] name = "ERR.TXT" ->
         FileHeader(2, -1, 1) \o
         << DataRow(0, <<0, 900, 100>>), DataRow(1, <<100, 800, 100>>), DataRow(2, <<100, 900, 0>>) >>
    [] name = "bad.txt" ->
         FileHeader(2, -1, 1) \o
         << DataRow(0, <<0, 800, 200>>), DataRow(1, <<200, 500, 200>>), DataRow(2, <<200, 800, 0>>) >>
    [] name = "empty.txt" -> <<>>
    [] name = "gap.txt" ->
         FileHeader(2, 0, 0) \o << DataRow(0, <<1000>>), DataRow(2, <<1000>>) >>
    [] OTHER -> Absent

\* get_error_model comparing the file names as they are written
get_error_model_exact(errs, filename) ==
  IF errs = NoArray THEN NULL
  ELSE IF \E k \in 1..Len(errs) : errs[k].em.errorfilename = filename
    THEN errs[CHOOSE k \in 1..Len(errs) : errs[k].em.errorfilename = filename].id
    ELSE NULL
\* get_error_model: the first stored model whose file name matches
get_error_model(errs, filename) ==
  IF errs = NoArray THEN NULL
  ELSE IF \E k \in 1..Len(errs) : case_insensitive_equal(errs[k].em.errorfilename, filename)
    THEN errs[CHOOSE k \in 1..Len(errs) :
                /\ case_insensitive_equal(errs[k].em.errorfilename, filename)
                /\ \A l \in 1..(k - 1) : ~case_insensitive_equal(errs[l].em.errorfilename, filename)].id
    ELSE NULL

\* the loop "for i ...: if (case_insensitive_equal(species[i], name)) { ...; break; }"
\* acts on the first matching species only; 0 when none matches
FirstMatch(sp, name) ==
  IF \E i \in 1..Len(sp) : case_insensitive_equal(sp[i], name)
    THEN CHOOSE i \in 1..Len(sp) :
           /\ case_insensitive_equal(sp[i], name)
           /\ \A l \in 1..(i - 1) : ~case_insensitive_equal(sp[l], name)
    ELSE 0

\* init_error_ptr: st is [ptr, node], the pair (family->error_ptr, leaf errormodel)
init_error_ptr(st, sp, idx, ref, speciesname) ==
  LET ptr == IF st.ptr = NoArray THEN [i \in 1..Len(sp) |-> NULL] ELSE st.ptr
      hit == IF speciesname # ""
               THEN (IF FirstMatch(sp, speciesname) = 0 THEN {} ELSE {FirstMatch(sp, speciesname)})
               ELSE 1..Len(sp)
  IN  [ptr |-> [i \in 1..Len(sp) |-> IF i \in hit THEN ref ELSE ptr[i]],
       node |-> [n \in Nodes |-> IF \E i \in hit : idx[i] = n THEN ref ELSE st.node[n]]]

\* remove_error_model on the same pair; errs is family->errors
remove_error_model(st, errs, sp, idx, species_name) ==
  LET i == FirstMatch(sp, species_name)
  IN  IF errs = NoArray \/ i = 0 THEN st
      ELSE [ptr |-> [st.ptr EXCEPT ![i] = NULL],
            node |-> [st.node EXCEPT ![idx[i]] = NULL]]

\* the loop of free_error_model: remove_error_model for species[k..]
RECURSIVE RemoveAll(_, _, _, _, _)
RemoveAll(st, errs, sp, idx, k) ==
  IF k > Len(sp) THEN st
  ELSE RemoveAll(remove_error_model(st, errs, sp, idx, sp[k]), errs, sp, idx, k + 1)

\* column-sum validation: 0 when every column of the matrix sums to 1,
\* -1 otherwise
RECURSIVE ColumnSum(_, _, _)
ColumnSum(em, j, r) ==
  IF r > em.maxfamilysize THEN 0 ELSE em.errormatrix[r][j] + ColumnSum(em, j, r + 1)

check_error_model_columnsums(em) ==
  IF \A j \in 0..em.maxfamilysize : ColumnSum(em, j, 0) = 1000 THEN 0 ELSE -1

NoCall == [op |-> "none", file |-> "", sp |-> "", result |-> "ok"]
Running == call.result \in {"ok", "io_error", "empty"}

FamIdle ==
  /\ species = <<>> /\ index = <<>> /\ errors = NoArray /\ error_ptr = NoArray
  /\ errormodel = <<>> /\ allocated = 0 /\ call = NoCall

InitFamily ==
  /\ species \in Families
  /\ index \in { [i \in 1..Len(species) |-> Leaves[i]],
                  [i \in 1..Len(species) |-> Leaves[Len(species) + 1 - i]] }
  /\ errors = NoArray
  /\ error_ptr = NoArray
  /\ errormodel = [n \in Nodes |-> NULL]
  /\ allocated = 0
  /\ call = NoCall

Attach(ref, speciesname, errs, result, filename) ==
  LET st == init_error_ptr([ptr |-> error_ptr, node |-> errormodel], species, index, ref, speciesname)
  IN  /\ errors' = errs
      /\ error_ptr' = st.ptr
      /\ errormodel' = st.node
      /\ call' = [op |-> "set", file |-> filename, sp |-> speciesname, result |-> result]

Fail(result, filename, speciesname) ==
  /\ call' = [op |-> "set", file |-> filename, sp |-> speciesname, result |-> result]
  /\ UNCHANGED <<errors, error_ptr, errormodel>>

\* set_error_matrix_from_file(family, pTree, range, filename, speciesname)
set_error_matrix_from_file(filename, speciesname) ==
  /\ Running
  /\ UNCHANGED <<species, index>>
  /\ LET found == get_error_model(errors, filename)
     IN  IF found # NULL
           THEN /\ Attach(found, speciesname, errors, "ok", filename)
                /\ UNCHANGED allocated
           ELSE /\ allocated < MaxLoads
                /\ allocated' = allocated + 1
                /\ IF Disk(filename) = Absent
                     THEN Fail("io_error", filename, speciesname)
                     ELSE \E ndebug \in BOOLEAN, g \in Garbage :
                       LET rd == ReadErrorModel(Disk(filename), NewErrorStruct(filename, RangeMax), ndebug, g)
                           \* the result of the column check is not used
                           checked == check_error_model_columnsums(rd.em)
                           entry == [id |-> allocated + 1, em |-> rd.em]
                       IN  IF rd.status # "ok"
                             THEN Fail(rd.status, filename, speciesname)
                             ELSE Attach(entry.id, speciesname,
                                         (IF errors = NoArray THEN <<>> ELSE errors) \o <<entry>>,
                                         "ok", filename)

\* remove_error_model(family, pcafe, species_name)
RemoveErrorModel(species_name) ==
  /\ Running
  /\ errors # NoArray => error_ptr # NoArray
  /\ LET st == remove_error_model([ptr |-> error_ptr, node |-> errormodel], errors, species, index, species_name)
     IN  /\ error_ptr' = st.ptr
         /\ errormodel' = st.node
  /\ call' = [op |-> "remove", file |-> "", sp |-> species_name, result |-> "ok"]
  /\ UNCHANGED <<species, index, errors, allocated>>

\* free_error_model that frees the reference array and keeps the store
free_error_model_keeps_errors ==
  /\ Running
  /\ errors # NoArray /\ error_ptr # NoArray
  /\ error_ptr' = NoArray
  /\ call' = [op |-> "free", file |-> "", sp |-> "", result |-> "ok"]
  /\ UNCHANGED <<species, index, errors, errormodel, allocated>>
\* free_error_model(family, pcafe)
free_error_model ==
  /\ Running
  /\ errors # NoArray => error_ptr # NoArray
  /\ LET st == RemoveAll([ptr |-> error_ptr, node |-> errormodel], errors, species, index, 1)
     IN  errormodel' = st.node
  /\ errors' = NoArray
  /\ error_ptr' = NoArray
  /\ call' = [op |-> "free", file |-> "", sp |-> "", result |-> "ok"]
  /\ UNCHANGED <<species, index, allocated>>

\* ------------------------------------- the error-estimation objective
\* Parameters are in tenths (1.0 is 10).  An ErrorMeasure is
\* [b_symmetric, b_peakzero, model_parameter_diff, model_parameter_number,
\*  maxFamilySize]; parameters is indexed 0..model_parameter_number-1.
MaxDiff == 2
EstMaxFamilySize == 2 * MaxDiff + 2    \* the epsilon divisor is never negative
ParamValues == -1..MaxParam

ErrorMeasure(sym, pz, diff) ==
  [b_symmetric |-> sym, b_peakzero |-> pz, model_parameter_diff |-> diff,
   model_parameter_number |-> IF sym THEN diff + 1 ELSE 2 * diff + 1,
   maxFamilySize |-> EstMaxFamilySize]

RECURSIVE SumParameters(_, _, _)
SumParameters(parameters, lo, hi) ==
  IF lo > hi THEN 0 ELSE parameters[lo] + SumParameters(parameters, lo + 1, hi)

\* get_marginal_error_probability_epsilon, as the fraction num/den
get_marginal_error_probability_epsilon(errormeasure, parameters) ==
  LET n == errormeasure.model_parameter_number
      sum == IF errormeasure.b_symmetric
               THEN parameters[0] + 2 * SumParameters(parameters, 1, n - 1)
               ELSE SumParameters(parameters, 0, n - 1)
  IN  [num |-> 10 - sum,
       den |-> (errormeasure.maxFamilySize + 1) - (errormeasure.model_parameter_diff * 2 + 1)]

\* the first loop without its test of the epsilon residual
EpsilonNegative_dropped(eps) == FALSE

\* marginal_error_probability_epsilon < 0 (the divisor is not negative)
EpsilonNegative(eps) == eps.num < 0

\* marginal_error_probability_epsilon > parameters[i]
EpsilonAbove(eps, x) == eps.num > x * eps.den

\* the first loop of the objective: sets skip
BasicReject(errormeasure, parameters) ==
  LET eps == get_marginal_error_probability_epsilon(errormeasure, parameters)
  IN  \E i \in 0..(errormeasure.model_parameter_number - 1) :
        parameters[i] < 0 \/ EpsilonNegative(eps) \/ EpsilonAbove(eps, parameters[i])

\* the b_peakzero block: previous_param < next parameter away from the peak
PeakZeroReject(errormeasure, parameters) ==
  LET diff == errormeasure.model_parameter_diff
  IN  IF errormeasure.b_symmetric
        THEN \E i \in 1..(errormeasure.model_parameter_number - 1) :
               parameters[i - 1] < parameters[i]
        ELSE \/ \E i \in 1..diff : parameters[diff - i + 1] < parameters[diff - i]
             \/ \E i \in 1..diff : parameters[diff + i - 1] < parameters[diff + i]

\* __loglikelihood_pairs_from_double_measure: whether the parameters were
\* rejected, whether an error matrix was built, and the cost returned
loglikelihood_pairs_from_double_measure(errormeasure, parameters) ==
  LET skip == \/ BasicReject(errormeasure, parameters)
              \/ (errormeasure.b_peakzero /\ PeakZeroReject(errormeasure, parameters))
  IN  [skip |-> skip, built |-> ~skip, cost |-> IF skip THEN "inf" ELSE "score"]

\* the inputs of one evaluation, for model_parameter_diff in diffs
EstInputs(diffs) ==
  UNION { { [measure |-> ErrorMeasure(sym, pz, diff), parameters |-> p] :
              p \in [0..(ErrorMeasure(sym, pz, diff).model_parameter_number - 1) -> ParamValues] } :
          sym \in BOOLEAN, pz \in BOOLEAN, diff \in diffs }

NoOut == [skip |-> FALSE, built |-> FALSE, cost |-> "none"]
NoIn == [measure |-> ErrorMeasure(TRUE, FALSE, 0), parameters |-> <<>>]

EstIdle == est_in = NoIn /\ est_out = NoOut

EstStart == est_in \in EstInputs(1..MaxDiff) /\ est_out = NoOut

\* one evaluation of the objective by the simplex search
EvaluateObjective ==
  /\ est_out = NoOut
  /\ est_out' = loglikelihood_pairs_from_double_measure(est_in.measure, est_in.parameters)
  /\ UNCHANGED est_in

\* ------------------------------------------- the two measure files
\* A measure file is its header line (present or not) and its data lines; a
\* data line is a gene_family: the family id and the counts, one per species.
GeneFamilies ==
  { [id |-> i, values |-> v] :
      i \in {"ENS01", "ENS02"}, v \in {<<0>>, <<1>>, <<1, 0>>, <<0, 2>>} }

RECURSIVE LinesOf(_, _)
\* the sequences of at most n data lines drawn from rows
LinesOf(rows, n) ==
  IF n = 0 THEN { <<>> }
  ELSE LinesOf(rows, n - 1)
         \cup { Append(s, r) : s \in { t \in LinesOf(rows, n - 1) : Len(t) = n - 1 }, r \in rows }

NoMeasureFile == [header |-> FALSE, rows |-> <<>>]
\* the second measure: any lines
MeasureFiles ==
  { NoMeasureFile } \cup { [header |-> TRUE, rows |-> s] : s \in LinesOf(GeneFamilies, MaxLines) }

NoPairs == <<>>

RECURSIVE CountValues(_, _, _)
\* sizeFreq[gf.values[i]]++ for every count of the line
CountValues(freq, values, i) ==
  IF i > Len(values) THEN freq
  ELSE CountValues([freq EXCEPT ![values[i]] = @ + 1], values, i + 1)

RECURSIVE MaxElement(_, _)
\* *std::max_element of the first i counts of a line that has some
MaxElement(values, i) ==
  IF i = 1 THEN values[1] ELSE Max2(values[i], MaxElement(values, i - 1))

RECURSIVE CountFirst(_, _, _)
\* the loop over the data lines of measure 1
CountFirst(st, rows, k) ==
  IF k > Len(rows) THEN st
  ELSE CountFirst([sizeFreq |-> CountValues(st.sizeFreq, rows[k].values, 1),
                   maxFamilySize |-> Max2(st.maxFamilySize,
                                          MaxElement(rows[k].values, Len(rows[k].values))),
                   data1colnum |-> Len(rows[k].values),
                   line1 |-> st.line1 + 1], rows, k + 1)

RECURSIVE CountSecond(_, _, _, _)
\* the loop over the data lines of measure 2
CountSecond(st, rows, k, data1colnum) ==
  IF k > Len(rows) THEN st
  ELSE IF data1colnum # Len(rows[k].values) THEN [st EXCEPT !.err = "columns"]
  ELSE CountSecond([sizeFreq |-> CountValues(st.sizeFreq, rows[k].values, 1),
                    maxFamilySize |-> Max2(st.maxFamilySize,
                                           MaxElement(rows[k].values, Len(rows[k].values))),
                    line2 |-> st.line2 + 1,
                    err |-> "none"], rows, k + 1, data1colnum)

LineCountsDiffer_never(line1, line2) == FALSE
LineCountsDiffer(line1, line2) == line1 # line2

read_freq_from_measures(ist1, ist2, freq0, maxFamilySize0) ==
  IF ~ist1.header \/ ~ist2.header
  THEN [err |-> "io_error", sizeFreq |-> freq0, maxFamilySize |-> maxFamilySize0]
  ELSE
    LET one == CountFirst([sizeFreq |-> freq0, maxFamilySize |-> maxFamilySize0,
                           data1colnum |-> 0, line1 |-> 0], ist1.rows, 1)
        two == CountSecond([sizeFreq |-> one.sizeFreq, maxFamilySize |-> one.maxFamilySize,
                            line2 |-> 0, err |-> "none"], ist2.rows, 1, one.data1colnum)
    IN  [err |-> IF two.err # "none" THEN two.err
                 ELSE IF LineCountsDiffer(one.line1, two.line2) THEN "lines"
                 ELSE "none",
         sizeFreq |-> two.sizeFreq, maxFamilySize |-> two.maxFamilySize]

RECURSIVE CountPairs(_, _, _, _, _)
\* observed_pairs[gf1.values[i]][gf2.values[i]]++ for every count of line 1;
\* g is what a read past the end of gf2.values returns
CountPairs(pairs, v1, v2, i, g) ==
  IF i > Len(v1) \/ pairs = NoPairs THEN pairs
  ELSE LET b == IF i <= Len(v2) THEN v2[i] ELSE g
       IN  IF b = Crash \/ b >= Len(pairs) \/ v1[i] >= Len(pairs) THEN NoPairs
           ELSE CountPairs([pairs EXCEPT ![v1[i] + 1][b + 1] = @ + 1], v1, v2, i + 1, g)

RECURSIVE ComparePairs(_, _, _, _, _)
\* the loop over the lines of measure 1, each with the next line of measure 2
ComparePairs(st, rows1, rows2, k, g) ==
  IF k > Len(rows1) \/ st.err # "none" THEN st
  ELSE IF k > Len(rows2) THEN ComparePairs(st, rows1, rows2, k + 1, g)
  ELSE IF rows1[k].id # rows2[k].id THEN [st EXCEPT !.err = "ids"]
  ELSE LET p == CountPairs(st.pairs, rows1[k].values, rows2[k].values, 1, g)
       IN  ComparePairs([pairs |-> p, err |-> IF p = NoPairs THEN "crash" ELSE "none"],
                        rows1, rows2, k + 1, g)

\* the pair counts left as they were counted
MergeTriangle_unmerged(pairs) == pairs
\* merging i,j and j,i into the upper triangle
MergeTriangle(pairs) ==
  [i \in 1..Len(pairs) |->
     [j \in 1..Len(pairs) |->
        IF j < i THEN 0 ELSE IF j > i THEN pairs[i][j] + pairs[j][i] ELSE pairs[i][i]]]

read_error_double_measure(ist1, ist2, maxFamilySize, g) ==
  IF ~ist1.header \/ ~ist2.header THEN [err |-> "io_error", pairs |-> NoPairs]
  ELSE
    LET zero == [i \in 1..(maxFamilySize + 1) |-> [j \in 1..(maxFamilySize + 1) |-> 0]]
        st == ComparePairs([pairs |-> zero, err |-> "none"], ist1.rows, ist2.rows, 1, g)
    IN  IF st.err # "none" THEN [err |-> st.err, pairs |-> NoPairs]
        ELSE [err |-> "none", pairs |-> MergeTriangle(st.pairs)]

NoMeasure ==
  [pc |-> "idle", file1 |-> NoMeasureFile, file2 |-> NoMeasureFile, sizeFreq |-> [s \in 0..3 |-> 0],
   maxFamilySize |-> 0, sizeDist |-> <<>>, observed_pairs |-> NoPairs, err |-> "none"]

INT_MAX == 127         \* the largest int, of an int of eight bits

\* Either the two files are about to be read (every line of the first measure
\* has one count per species of its header), or files too long to enumerate
\* have been read and left the table of size frequencies they counted.
MeasStart ==
  meas \in { [NoMeasure EXCEPT !.pc = "start", !.file1 = f1, !.file2 = f2,
                               !.maxFamilySize = m] :
               f1 \in { f \in MeasureFiles :
                          \A k \in 1..Len(f.rows) :
                             Len(f.rows[k].values) = Len(f.rows[1].values) },
               f2 \in MeasureFiles, m \in {0, 3} }
          \cup
          { [NoMeasure EXCEPT !.pc = "table", !.sizeFreq = t.freq, !.maxFamilySize = t.max] :
               t \in { u \in [freq : [0..3 -> {0, 1, 40, INT_MAX}], max : 0..3] :
                         \A i \in 0..3 : i > u.max => u.freq[i] = 0 } }

\* estimate_error_double_measure up to the size frequencies
ReadFreq ==
  /\ meas.pc = "start"
  /\ LET r == read_freq_from_measures(meas.file1, meas.file2, meas.sizeFreq,
                                      meas.maxFamilySize)
     IN  meas' = [meas EXCEPT !.err = r.err, !.sizeFreq = r.sizeFreq,
                              !.maxFamilySize = r.maxFamilySize,
                              !.pc = IF r.err = "none" THEN "freq" ELSE "throw"]

\* estimate_error_double_measure from the rewind to the pair counts
\* get_size_probability_distribution works in int: sizeTotal and
\* sizeFreq[i] + 1 are int sums, and a sum that leaves the range of int is
\* undefined: the build wraps it or traps.  A probability is the pair of the
\* int numerator and the int total the division to double is made from.
WrapInt(x) == ((x + INT_MAX + 1) % (2 * (INT_MAX + 1))) - (INT_MAX + 1)

RECURSIVE SizeTotal(_, _)
SizeTotal(sizeFreq, i) ==
  IF i < 0 THEN 0 ELSE WrapInt(SizeTotal(sizeFreq, i - 1) + WrapInt(sizeFreq[i] + 1))

get_size_probability_distribution(maxFamilySize, sizeFreq, traps) ==
  IF traps /\ \E i \in 0..maxFamilySize :
                \/ sizeFreq[i] + 1 > INT_MAX
                \/ SizeTotal(sizeFreq, i - 1) + sizeFreq[i] + 1 > INT_MAX
  THEN [err |-> "trap", sizeDist |-> <<>>]
  ELSE [err |-> "none",
        sizeDist |-> [i \in 0..maxFamilySize |->
                        [num |-> WrapInt(sizeFreq[i] + 1),
                         den |-> SizeTotal(sizeFreq, maxFamilySize)]]]

\* estimate_error_double_measure from the size frequencies to the distribution
GetSizeProbabilityDistribution ==
  /\ meas.pc \in {"freq", "table"}
  /\ \E traps \in BOOLEAN :
       LET r == get_size_probability_distribution(meas.maxFamilySize, meas.sizeFreq, traps)
       IN  meas' = [meas EXCEPT !.err = r.err, !.sizeDist = r.sizeDist,
                                !.pc = IF r.err = "trap" THEN "trap"
                                       ELSE IF meas.pc = "freq" THEN "dist" ELSE "done"]

ReadPairs ==
  /\ meas.pc = "dist"
  /\ \E g \in Garbage :
       LET r == read_error_double_measure(meas.file1, meas.file2, meas.maxFamilySize, g)
       IN  meas' = [meas EXCEPT !.err = r.err, !.observed_pairs = r.pairs,
                                !.pc = CASE r.err = "none" -> "pairs"
                                         [] r.err = "crash" -> "crash"
                                         [] OTHER -> "throw"]

\* ------------------------------------------------- the restart loop
\* estimate_error_double_measure and estimate_error_true_measure run the same
\* do-while around fminsearch_min.  A score is a whole number of half tolf;
\* NaN and +infinity are the two values named below.  run holds the locals of
\* the loop, the score of the last simplex run, the number of simplex runs
\* made (nsimplex) and how many of them stopped at their iteration limit.
\* The vector a simplex run returns is known by the score of that run:
\* estimates is the score of the run whose vector bestrun_parameters holds, 0
\* while it is the zeroed array of memory_new.  seen and counted are the
\* scores of the runs made so far and of those that ended below their limit.
max_runs == 100
TolF == 2              \* pfm->tolf
DBL_MAX == 1000
Inf == 1001            \* above every finite double
NaN == -1              \* every comparison with it is false
Scores == {10, 11, 20, Inf, NaN}

isnan(x) == x = NaN
isinf(x) == x = Inf
\* a < b on doubles
LessThan(a, b) == ~isnan(a) /\ ~isnan(b) /\ a < b
\* abs(a - b) < tol on doubles: a - b is infinite or NaN when an operand is
AbsDiffBelow_noabs(a, b, tol) ==
  /\ ~isnan(a) /\ ~isnan(b) /\ ~isinf(a) /\ ~isinf(b)
  /\ a - b < tol
AbsDiffBelow(a, b, tol) ==
  /\ ~isnan(a) /\ ~isnan(b) /\ ~isinf(a) /\ ~isinf(b)
  /\ (IF a >= b THEN a - b ELSE b - a) < tol

NoRun == [pc |-> "idle", estimator |-> "none", runs |-> 0, converged |-> 0,
          minscore |-> DBL_MAX, nsimplex |-> 0, fv |-> NaN, at_limit |-> 0,
          estimates |-> 0, seen |-> {}, counted |-> {}]

\* the locals before the do-while
RunStart ==
  run \in { [NoRun EXCEPT !.pc = "loop", !.estimator = e] :
              e \in {"double_measure", "true_measure"} }

\* one pass of the do-while body without the test of the iteration count
\* around the update of the best run
RestartPass_keeps_all(r, fv, below) ==
  LET conv == IF r.runs > 0 /\ ~isnan(fv) /\ ~isinf(fv) /\ AbsDiffBelow(r.minscore, fv, TolF)
              THEN 1 ELSE r.converged
      n == IF below THEN r.runs + 1 ELSE r.runs
  IN  [pc |-> IF conv = 0 /\ n < max_runs THEN "loop" ELSE "done",
       estimator |-> r.estimator,
       runs |-> n,
       converged |-> conv,
       minscore |-> IF LessThan(fv, r.minscore) THEN fv ELSE r.minscore,
       nsimplex |-> r.nsimplex + 1,
       fv |-> fv,
       at_limit |-> IF below THEN r.at_limit ELSE r.at_limit + 1,
       estimates |-> IF LessThan(fv, r.minscore) THEN fv ELSE r.estimates,
       seen |-> r.seen \cup {fv},
       counted |-> IF below THEN r.counted \cup {fv} ELSE r.counted]

\* one pass of the do-while body: the simplex run returns score fv and stops
\* below its iteration limit (below) or at it
RestartPass(r, fv, below) ==
  LET conv == IF r.runs > 0 /\ ~isnan(fv) /\ ~isinf(fv) /\ AbsDiffBelow(r.minscore, fv, TolF)
              THEN 1 ELSE r.converged
      n == IF below THEN r.runs + 1 ELSE r.runs
  IN  [pc |-> IF conv = 0 /\ n < max_runs THEN "loop" ELSE "done",
       estimator |-> r.estimator,
       runs |-> n,
       converged |-> conv,
       minscore |-> IF below /\ LessThan(fv, r.minscore) THEN fv ELSE r.minscore,
       nsimplex |-> r.nsimplex + 1,
       fv |-> fv,
       at_limit |-> IF below THEN r.at_limit ELSE r.at_limit + 1,
       estimates |-> IF below /\ LessThan(fv, r.minscore) THEN fv ELSE r.estimates,
       seen |-> r.seen \cup {fv},
       counted |-> IF below THEN r.counted \cup {fv} ELSE r.counted]

estimate_error_double_measure ==
  /\ run.pc = "loop" /\ run.estimator = "double_measure"
  /\ \E fv \in Scores, below \in BOOLEAN :
       /\ (below \/ run.at_limit < MaxAtLimit)
       /\ run' = RestartPass(run, fv, below)

estimate_error_true_measure ==
  /\ run.pc = "loop" /\ run.estimator = "true_measure"
  /\ \E fv \in Scores, below \in BOOLEAN :
       /\ (below \/ run.at_limit < MaxAtLimit)
       /\ run' = RestartPass(run, fv, below)

\* ------------------------------------- the birth-death transition kernel
\* Rates are whole numbers per unit of time and a branch length is a number
\* of half units.  A probability is an exact fraction [num, den], den > 0.
\* e^((lambda-mu)t) is irrational: the kernel takes it as the fraction
\* E[1]/E[2], any value on the side of 1 that the sign of (lambda-mu)t gives.
TimeDen == 2
SameAsLambda == -1     \* the mu sentinel: mu = lambda

RECURSIVE Pow(_, _)
Pow(x, n) == IF n <= 0 THEN 1 ELSE x * Pow(x, n - 1)

RECURSIVE Choose(_, _)
\* the binomial coefficient C(n, k)
Choose(n, k) ==
  IF k < 0 \/ k > n THEN 0
  ELSE IF k = 0 THEN 1
  ELSE (Choose(n - 1, k - 1) * n) \div k

\* the values e^x may take in the model
ExpValues(x) ==
  IF x = 0 THEN { <<1, 1>> }
  ELSE IF x > 0 THEN { <<2, 1>>, <<3, 2>>, <<3, 1>> }
  ELSE { <<1, 2>>, <<2, 3>>, <<1, 3>> }

\* alpha = a/d, beta = b/d and 1 - alpha - beta = g/d
AlphaBeta(t, lambda, mu, E) ==
  LET m == IF mu = SameAsLambda THEN lambda ELSE mu
  IN  IF lambda = m
      THEN [a |-> lambda * t, b |-> lambda * t, d |-> TimeDen + lambda * t,
            g |-> TimeDen - lambda * t]
      ELSE LET d0 == lambda * E[1] - m * E[2]
               s == IF d0 < 0 THEN -1 ELSE 1
               a == s * m * (E[1] - E[2])
               b == s * lambda * (E[1] - E[2])
           IN  [a |-> a, b |-> b, d |-> s * d0, g |-> s * d0 - a - b]

RECURSIVE TransitionSum(_, _, _, _)
\* the terms k..min(i,j) of P(i -> j), over the denominator d^(i+j): term k
\* has i+j-k factors a/d, b/d or g/d
TransitionSum(ab, i, j, k) ==
  IF k > i \/ k > j THEN 0
  ELSE Choose(i, k) * Choose(i + j - k - 1, i - 1)
         * Pow(ab.a, i - k) * Pow(ab.b, j - k) * Pow(ab.g, k) * Pow(ab.d, k)
       + TransitionSum(ab, i, j, k + 1)

\* a family of size 0 stays at 0
Row0_all_zero(j) == [num |-> 0, den |-> 1]
Row0(j) == [num |-> IF j = 0 THEN 1 ELSE 0, den |-> 1]

birthdeath_rate(ab, i, j) ==
  IF i = 0 THEN Row0(j)
  ELSE [num |-> TransitionSum(ab, i, j, 0), den |-> Pow(ab.d, i + j)]

\* the matrix of side maxFamilysize + 1
compute_birthdeath_rates(branchlength, lambda, mu, maxFamilysize, E) ==
  LET ab == AlphaBeta(branchlength, lambda, mu, E)
  IN  [size |-> maxFamilysize + 1,
       values |-> [i \in 0..maxFamilysize |->
                     [j \in 0..maxFamilysize |-> birthdeath_rate(ab, i, j)]]]

NoMatrix == [size |-> 0, values |-> <<>>]

NoKernel == [in |-> [t |-> 0, lambda |-> 0, mu |-> 0, max |-> 0, E |-> <<1, 1>>],
             out |-> NoMatrix]

\* the inputs: E is a value of e^((lambda-mu)t)
KernStart ==
  kern \in
    { [NoKernel EXCEPT !.in = in] :
        in \in { x \in [t : 0..MaxT, lambda : 0..2, mu : {SameAsLambda} \cup 0..2,
                        max : 1..MaxSize,
                        E : ExpValues(-1) \cup ExpValues(0) \cup ExpValues(1)] :
                  x.E \in ExpValues((x.lambda - (IF x.mu = SameAsLambda THEN x.lambda
                                                 ELSE x.mu)) * x.t) } }

ComputeBirthDeathRates ==
  /\ kern # NoKernel /\ kern.out = NoMatrix
  /\ kern' = [kern EXCEPT !.out = compute_birthdeath_rates(kern.in.t, kern.in.lambda,
                                       kern.in.mu, kern.in.max, kern.in.E)]

\* ------------------------------------------------------ the matrix cache
\* The cache is its entries in insertion order; a node of the tree is its
\* branch length (half units, negative when unset), its rates and its matrix.
CacheNodes == 0..2     \* node 0 is the root

BirthDeathCacheKey(branchlength, lambda, mu) ==
  [branchlength |-> branchlength \div TimeDen, lambda |-> lambda, mu |-> mu]

add_key_always(arr, branchlength, lambda, mu) ==
  Append(arr, BirthDeathCacheKey(branchlength, lambda, mu))
add_key(arr, branchlength, lambda, mu) ==
  LET key == BirthDeathCacheKey(branchlength, lambda, mu)
  IN  IF \E i \in 1..Len(arr) : arr[i] = key THEN arr ELSE Append(arr, key)

\* the matrix stored under a key that came from the given branch length
CacheMatrix_untruncated(key, branchlength, maxFamilysize) ==
  compute_birthdeath_rates(branchlength, key.lambda, key.mu, maxFamilysize, <<1, 1>>)
CacheMatrix(key, branchlength, maxFamilysize) ==
  compute_birthdeath_rates(key.branchlength * TimeDen, key.lambda, key.mu, maxFamilysize, <<1, 1>>)

birthdeath_cache_init(size) == [maxFamilysize |-> size, entries |-> <<>>]

birthdeath_cache_get_matrix(c, branchlength, lambda, mu) ==
  LET key == BirthDeathCacheKey(branchlength, lambda, mu)
      keys == add_key([i \in 1..Len(c.entries) |-> c.entries[i].key], branchlength, lambda, mu)
  IN  IF Len(keys) = Len(c.entries)
      THEN [cache |-> c,
            matrix |-> c.entries[CHOOSE i \in 1..Len(c.entries) : c.entries[i].key = key].matrix]
      ELSE LET m == CacheMatrix(key, branchlength, c.maxFamilysize)
           IN  [cache |-> [c EXCEPT !.entries = Append(@, [key |-> key, matrix |-> m])],
                matrix |-> m]

node_set_birthdeath_matrix_always(node, c) ==
  LET r == birthdeath_cache_get_matrix(c, node.branchlength, node.lambda, node.mu)
  IN  [cache |-> r.cache, node |-> [node EXCEPT !.birthdeath_matrix = r.matrix]]
\* one node: no matrix can be set while the branch length is not
node_set_birthdeath_matrix(node, c) ==
  IF node.branchlength < 0 THEN [cache |-> c, node |-> node]
  ELSE LET r == birthdeath_cache_get_matrix(c, node.branchlength, node.lambda, node.mu)
       IN  [cache |-> r.cache, node |-> [node EXCEPT !.birthdeath_matrix = r.matrix]]

RECURSIVE ApplyToTree(_, _, _)
\* every non-root node from n on
ApplyToTree(c, t, n) ==
  IF n \notin CacheNodes THEN [cache |-> c, tree |-> t]
  ELSE IF n = 0 THEN ApplyToTree(c, t, n + 1)
  ELSE LET r == node_set_birthdeath_matrix(t[n], c)
       IN  ApplyToTree(r.cache, [t EXCEPT ![n] = r.node], n + 1)

\* a fresh cache of the new size, applied to the tree
reset_birthdeath_cache(t, size) == ApplyToTree(birthdeath_cache_init(size), t, 0)

NoLookup == [op |-> "none", branchlength |-> 0, lambda |-> 0, mu |-> 0, matrix |-> NoMatrix]

NoCache == [cache |-> birthdeath_cache_init(0), tree |-> <<>>, last |-> NoLookup]

CacheStart ==
  bdc \in { [cache |-> birthdeath_cache_init(s),
             tree |-> [n \in CacheNodes |->
                         [branchlength |-> IF n = 0 THEN -TimeDen ELSE IF n = 1 THEN b1 ELSE b2,
                          lambda |-> 1, mu |-> SameAsLambda, birthdeath_matrix |-> NoMatrix]],
             last |-> NoLookup] :
            s \in {1, 2}, b1 \in {-2, 0, 3}, b2 \in {-2, 0, 3} }

GetMatrix ==
  /\ bdc # NoCache
  /\ \E t \in {2, 3, 4}, lambda \in {1, 2} :
       LET r == birthdeath_cache_get_matrix(bdc.cache, t, lambda, SameAsLambda)
       IN  /\ Len(r.cache.entries) <= MaxEntries
           /\ bdc' = [bdc EXCEPT !.cache = r.cache,
                                 !.last = [op |-> "get", branchlength |-> t, lambda |-> lambda,
                                           mu |-> SameAsLambda, matrix |-> r.matrix]]

NodeSetBirthdeathMatrix ==
  /\ bdc # NoCache
  /\ \E n \in CacheNodes \ {0} :
       LET r == node_set_birthdeath_matrix(bdc.tree[n], bdc.cache)
       IN  /\ Len(r.cache.entries) <= MaxEntries
           /\ bdc' = [cache |-> r.cache, tree |-> [bdc.tree EXCEPT ![n] = r.node],
                      last |-> [NoLookup EXCEPT !.op = "node"]]

ResetBirthDeathCache ==
  /\ bdc # NoCache
  /\ \E size \in {1, 2} :
       LET r == reset_birthdeath_cache(bdc.tree, size)
       IN  bdc' = [cache |-> r.cache, tree |-> r.tree, last |-> [NoLookup EXCEPT !.op = "reset"]]

\* the branch lengths of the tree change between evaluations
SetBranchLength ==
  /\ bdc # NoCache
  /\ \E t \in {-2, 0, 3} :
       /\ t # bdc.tree[1].branchlength
       /\ bdc' = [bdc EXCEPT !.tree[1].branchlength = t, !.last = [NoLookup EXCEPT !.op = "set"]]

\* ------------------------------------------- the pruning likelihood engine
\* A tree is the list of children of every node; node 0 is the root and a
\* node without children is a leaf.  Matrix entries are whole numbers over
\* one common denominator.
\* the transition matrix of the branch above node n
NodeMatrix(kind, n, max) ==
  [s \in 0..max |-> [c \in 0..max |->
     IF s = 0 THEN (IF c = 0 THEN 3 ELSE 0)
     ELSE ((s + 2 * c + n * kind) % 3) + (IF s = c THEN 1 ELSE 0)]]

RECURSIVE WeightedSum_transposed(_, _, _, _)
WeightedSum_transposed(matrix, likelihoods, s, c) ==
  IF c \notin DOMAIN likelihoods THEN 0
  ELSE matrix[c][s] * likelihoods[c] + WeightedSum_transposed(matrix, likelihoods, s, c + 1)
RECURSIVE WeightedSum(_, _, _, _)
\* the sum over the sizes c and above of matrix[s][c] * likelihoods[c]
WeightedSum(matrix, likelihoods, s, c) ==
  IF c \notin DOMAIN likelihoods THEN 0
  ELSE matrix[s][c] * likelihoods[c] + WeightedSum(matrix, likelihoods, s, c + 1)

RECURSIVE compute_node_likelihood(_, _)
RECURSIVE ChildProduct(_, _, _, _)
\* the product over the children from the k-th on of their weighted sums
ChildProduct(in, children, k, s) ==
  IF k > Len(children) THEN 1
  ELSE WeightedSum(NodeMatrix(in.kind, children[k], in.max),
                   compute_node_likelihood(in, children[k]), s, 0)
         * ChildProduct(in, children, k + 1, s)

\* likelihoods of node n: a leaf has 1 at its family size, an internal node
\* the product over its children
compute_node_likelihood(in, n) ==
  IF in.tree[n] = <<>>
  THEN [s \in 0..in.max |-> IF s = in.familysize[n] THEN 1 ELSE 0]
  ELSE [s \in 0..in.max |-> ChildProduct(in, in.tree[n], 1, s)]

\* the likelihoods of the root
compute_tree_likelihoods(in) == compute_node_likelihood(in, 0)

NoLikelihood == [in |-> [tree |-> <<>>, max |-> 0, kind |-> 0, familysize |-> <<>>],
                 likelihoods |-> <<>>]

\* a family size at every leaf, none (-1) at the other nodes
LikeStart ==
  like \in UNION { { [in |-> [tree |-> t, max |-> m, kind |-> k, familysize |-> f],
                      likelihoods |-> <<>>] :
                     k \in {1, 2},
                     f \in { g \in [DOMAIN t -> -1..m] :
                               \A n \in DOMAIN t : (g[n] = -1) <=> (t[n] # <<>>) } } :
                   t \in { [n \in 0..2 |-> IF n = 0 THEN <<1, 2>> ELSE <<>>],
                           [n \in 0..4 |-> IF n = 0 THEN <<1, 2>>
                                            ELSE IF n = 1 THEN <<3, 4>> ELSE <<>>],
                           [n \in 0..5 |-> IF n = 0 THEN <<1, 2, 5>>
                                            ELSE IF n = 1 THEN <<3, 4>> ELSE <<>>] },
                   m \in 1..MaxSize }

ComputeTreeLikelihoods ==
  /\ like # NoLikelihood /\ like.likelihoods = <<>>
  /\ like' = [like EXCEPT !.likelihoods = compute_tree_likelihoods(like.in)]

\* ------------------------------------------------------------ the p-value
\* Likelihoods are whole numbers of one small unit; the p-value is the
\* fraction [num, den].
RECURSIVE lower_bound(_, _, _, _)
lower_bound(conddist, v, first, len) ==
  IF len <= 0 THEN first
  ELSE LET half == len \div 2
       IN  IF conddist[first + half + 1] < v
           THEN lower_bound(conddist, v, first + half + 1, len - half - 1)
           ELSE lower_bound(conddist, v, first, half)
RECURSIVE upper_bound(_, _, _, _)
\* std::upper_bound by bisection: the number of entries before the first one
\* that is greater than v, searching len entries after the first `first`
upper_bound(conddist, v, first, len) ==
  IF len <= 0 THEN first
  ELSE LET half == len \div 2
       IN  IF ~(v < conddist[first + half + 1])
           THEN upper_bound(conddist, v, first + half + 1, len - half - 1)
           ELSE upper_bound(conddist, v, first, half)

my_pvalue(v, conddist) ==
  [num |-> upper_bound(conddist, v, 0, Len(conddist)), den |-> Len(conddist)]

pvalue(v, conddist, size) == my_pvalue(v, SubSeq(conddist, 1, size))

NoPvalue == [v |-> 0, conddist |-> <<>>, p |-> [num |-> 0, den |-> 0]]

\* a value and a sorted conditional distribution
PvalStart ==
  LET SortedDists(n) == { s \in [1..n -> 1..3] : \A i \in 1..(n - 1) : s[i] <= s[i + 1] }
  IN  pval \in { [NoPvalue EXCEPT !.v = v, !.conddist = cd] :
                   v \in 0..4, cd \in UNION { SortedDists(n) : n \in 1..MaxDist } }

ComputePvalue ==
  /\ pval # NoPvalue /\ pval.p.den = 0
  /\ pval' = [pval EXCEPT !.p = pvalue(pval.v, pval.conddist, Len(pval.conddist))]

\* ----------------------------------------------------- update_branchlength
\* A branch length is a whole number of quarter units; old_branchlength is an
\* array of int.  The multiplier is a number of half units.
LenDen == 4

\* a double stored into an int: the fraction is dropped
DoubleToInt_rounded(len) == (len + LenDen \div 2) \div LenDen
DoubleToInt(len) == len \div LenDen

update_branchlength(b) ==
  [b EXCEPT
     !.pc = "updated",
     !.old_branchlength = [i \in DOMAIN b.branchlength |-> DoubleToInt(b.branchlength[i])],
     !.branchlength = [i \in DOMAIN b.branchlength |->
                         IF b.taxaid[i] > 0
                         THEN b.branchlength[i]
                                + (b.branchlength[i] * b.multiplier * b.t[b.taxaid[i]]) \div 2
                         ELSE b.branchlength[i]]]

NoBranch == [pc |-> "idle", branchlength |-> <<>>, taxaid |-> <<>>, old_branchlength |-> <<>>,
             multiplier |-> 0, t |-> <<>>]

BranchStart ==
  branch \in { [pc |-> "start", branchlength |-> bl, taxaid |-> id,
                old_branchlength |-> [i \in 1..2 |-> 97], multiplier |-> m, t |-> t] :
               bl \in [1..2 -> {6, 24, 324}], id \in [1..2 -> {-1, 1, 2}], m \in {2, 3},
               t \in {<<5, 1>>, <<0, 2>>} }

UpdateBranchLength ==
  /\ branch.pc = "start"
  /\ branch' = update_branchlength(branch)

\* ------------------------------------------------------- tree traversal
\* A parsed tree is binary and its node ids are given in infix order (the
\* leaves of "(((chimp,human),(mouse,rat)),dog)" are 0, 2, 4, 6 and 8 and its
\* root is 7).  A tree is its root and the list of children of every node.
RECURSIVE SubTrees(_, _)
\* the trees of n nodes whose ids are lo..lo+n-1
SubTrees(lo, n) ==
  IF n = 1 THEN { [root |-> lo, children |-> (lo :> <<>>)] }
  ELSE UNION { { [root |-> lo + l,
                  children |-> (L.children @@ R.children)
                                 @@ ((lo + l) :> <<L.root, R.root>>)] :
                   L \in SubTrees(lo, l), R \in SubTrees(lo + l + 1, n - l - 1) } :
               l \in { k \in 1..(n - 2) : k % 2 = 1 } }

RECURSIVE tree_traveral_right_first(_, _, _)
tree_traveral_right_first(order, children, n) ==
  IF children[n] = <<>> THEN <<n>>
  ELSE LET left == tree_traveral_right_first(order, children, children[n][1])
           right == tree_traveral_right_first(order, children, children[n][2])
       IN  CASE order = "prefix" -> (<<n>> \o right) \o left
             [] order = "infix" -> (right \o <<n>>) \o left
             [] OTHER -> (right \o left) \o <<n>>
RECURSIVE tree_traveral(_, _, _)
\* tree_traveral_prefix, tree_traveral_infix and tree_traveral_postfix from
\* node n: the ids in the order in which the visitor is called
tree_traveral(order, children, n) ==
  IF children[n] = <<>> THEN <<n>>
  ELSE LET left == tree_traveral(order, children, children[n][1])
           right == tree_traveral(order, children, children[n][2])
       IN  CASE order = "prefix" -> (<<n>> \o left) \o right
             [] order = "infix" -> (left \o <<n>>) \o right
             [] OTHER -> (left \o right) \o <<n>>

NoTraversal == [pc |-> "idle", order |-> "none", root |-> 0, children |-> <<>>, ids |-> <<>>]

TravStart ==
  trav \in { [pc |-> "start", order |-> o, root |-> t.root, children |-> t.children,
              ids |-> <<>>] :
               o \in {"prefix", "infix", "postfix"},
               t \in UNION { SubTrees(0, 2 * k - 1) : k \in 1..MaxLeaves } }

\* one traversal with a visitor that stores the node ids
TreeTraversal ==
  /\ trav.pc = "start"
  /\ trav' = [trav EXCEPT !.pc = "done",
                          !.ids = tree_traveral(trav.order, trav.children, trav.root)]

\* ------------------------------------------- leaf likelihood initialisation
\* matrix has num_rows rows (one per cluster) of num_cols entries, indexed
\* from 0; there is no error model.  Only the first row is initialised:
initialize_leaf_likelihoods_for_viterbi_first_row(matrix, num_rows, range, familysize, num_cols) ==
  [i \in 1..num_rows |->
     [j \in 0..(num_cols - 1) |->
        IF i > 1 THEN matrix[i][j]
        ELSE IF familysize < 0 THEN (IF j < range THEN 1 ELSE matrix[i][j])
        ELSE IF j = familysize THEN 1 ELSE 0]]
\* without a family size the entries below range are set to 1 and the others
\* are left as they were; with one the row is zeroed and the entry at the
\* family size set to 1
initialize_leaf_likelihoods_for_viterbi(matrix, num_rows, range, familysize, num_cols) ==
  [i \in 1..num_rows |->
     [j \in 0..(num_cols - 1) |->
        IF familysize < 0 THEN (IF j < range THEN 1 ELSE matrix[i][j])
        ELSE IF j = familysize THEN 1 ELSE 0]]

NoLeaf == [calls |-> 0, num_rows |-> 0, num_cols |-> 0, range |-> 0, familysize |-> 0,
           matrix |-> <<>>]

\* memory_new_2dim(rows, cols): the zeroed rows
LeafStart ==
  leaf \in { [NoLeaf EXCEPT !.num_rows = r, !.num_cols = c,
                            !.matrix = [i \in 1..r |-> [j \in 0..(c - 1) |-> 0]]] :
               r \in 1..2, c \in 1..MaxSize }

\* one call on the rows, which keep what an earlier call left in them
InitializeLeafLikelihoods ==
  /\ leaf.num_rows > 0 /\ leaf.calls < 2
  /\ \E range \in 1..leaf.num_cols, familysize \in -1..(leaf.num_cols - 1) :
       leaf' = [leaf EXCEPT !.calls = @ + 1, !.range = range, !.familysize = familysize,
                            !.matrix = initialize_leaf_likelihoods_for_viterbi(
                                         leaf.matrix, leaf.num_rows, range, familysize,
                                         leaf.num_cols)]

\* ========================================================== specifications
EstimIdle == meas = NoMeasure /\ run = NoRun

TreeIdle ==
  /\ kern = NoKernel /\ bdc = NoCache /\ like = NoLikelihood
  /\ pval = NoPvalue /\ branch = NoBranch /\ trav = NoTraversal /\ leaf = NoLeaf

Init == InitFamily /\ IoIdle /\ EstIdle /\ EstimIdle /\ TreeIdle

Next ==
  \/ \E f \in FileNames, s \in SpeciesArgs : set_error_matrix_from_file(f, s) /\ UNCHANGED <<iovars, estvars, estimvars, treevars>>
  \/ \E s \in SpeciesArgs : RemoveErrorModel(s) /\ UNCHANGED <<iovars, estvars, estimvars, treevars>>
  \/ free_error_model /\ UNCHANGED <<iovars, estvars, estimvars, treevars>>

Spec == Init /\ [][Next]_vars

InitIO == IoStart /\ FamIdle /\ EstIdle /\ EstimIdle /\ TreeIdle

NextIO ==
  \/ IoRead /\ UNCHANGED <<famvars, estvars, estimvars, treevars>>
  \/ IoWrite /\ UNCHANGED <<famvars, estvars, estimvars, treevars>>
  \/ IoReadBack /\ UNCHANGED <<famvars, estvars, estimvars, treevars>>
  \/ IoWriteAgain /\ UNCHANGED <<famvars, estvars, estimvars, treevars>>

SpecIO == InitIO /\ [][NextIO]_vars

InitEst == EstStart /\ FamIdle /\ IoIdle /\ EstimIdle /\ TreeIdle

NextEst == EvaluateObjective /\ UNCHANGED <<famvars, iovars, estimvars, treevars>>

SpecEst == InitEst /\ [][NextEst]_vars

\* error estimation: the two measure files, or the restart loop
InitEstimate ==
  /\ FamIdle /\ IoIdle /\ EstIdle /\ TreeIdle
  /\ \/ MeasStart /\ run = NoRun
     \/ RunStart /\ meas = NoMeasure

NextEstimate ==
  \/ ReadFreq /\ UNCHANGED <<famvars, iovars, estvars, run, treevars>>
  \/ GetSizeProbabilityDistribution /\ UNCHANGED <<famvars, iovars, estvars, run, treevars>>
  \/ ReadPairs /\ UNCHANGED <<famvars, iovars, estvars, run, treevars>>
  \/ estimate_error_double_measure /\ UNCHANGED <<famvars, iovars, estvars, meas, treevars>>
  \/ estimate_error_true_measure /\ UNCHANGED <<famvars, iovars, estvars, meas, treevars>>

SpecEstimate == InitEstimate /\ [][NextEstimate]_vars

\* the tree side: one of the kernel, the cache, the pruning engine, the
\* p-value and the branch-length update
InitTree ==
  /\ FamIdle /\ IoIdle /\ EstIdle /\ EstimIdle
  /\ \/ KernStart /\ bdc = NoCache /\ like = NoLikelihood /\ pval = NoPvalue /\ branch = NoBranch /\ trav = NoTraversal /\ leaf = NoLeaf
     \/ CacheStart /\ kern = NoKernel /\ like = NoLikelihood /\ pval = NoPvalue /\ branch = NoBranch /\ trav = NoTraversal /\ leaf = NoLeaf
     \/ LikeStart /\ kern = NoKernel /\ bdc = NoCache /\ pval = NoPvalue /\ branch = NoBranch /\ trav = NoTraversal /\ leaf = NoLeaf
     \/ PvalStart /\ kern = NoKernel /\ bdc = NoCache /\ like = NoLikelihood /\ branch = NoBranch /\ trav = NoTraversal /\ leaf = NoLeaf
     \/ BranchStart /\ kern = NoKernel /\ bdc = NoCache /\ like = NoLikelihood /\ pval = NoPvalue /\ trav = NoTraversal /\ leaf = NoLeaf
     \/ TravStart /\ kern = NoKernel /\ bdc = NoCache /\ like = NoLikelihood /\ pval = NoPvalue /\ branch = NoBranch /\ leaf = NoLeaf
     \/ LeafStart /\ kern = NoKernel /\ bdc = NoCache /\ like = NoLikelihood /\ pval = NoPvalue /\ branch = NoBranch /\ trav = NoTraversal

NextTree ==
  \/ ComputeBirthDeathRates /\ UNCHANGED <<famvars, iovars, estvars, estimvars, bdc, like, pval, branch, trav, leaf>>
  \/ GetMatrix /\ UNCHANGED <<famvars, iovars, estvars, estimvars, kern, like, pval, branch, trav, leaf>>
  \/ NodeSetBirthdeathMatrix /\ UNCHANGED <<famvars, iovars, estvars, estimvars, kern, like, pval, branch, trav, leaf>>
  \/ ResetBirthDeathCache /\ UNCHANGED <<famvars, iovars, estvars, estimvars, kern, like, pval, branch, trav, leaf>>
  \/ SetBranchLength /\ UNCHANGED <<famvars, iovars, estvars, estimvars, kern, like, pval, branch, trav, leaf>>
  \/ ComputeTreeLikelihoods /\ UNCHANGED <<famvars, iovars, estvars, estimvars, kern, bdc, pval, branch, trav, leaf>>
  \/ ComputePvalue /\ UNCHANGED <<famvars, iovars, estvars, estimvars, kern, bdc, like, branch, trav, leaf>>
  \/ UpdateBranchLength /\ UNCHANGED <<famvars, iovars, estvars, estimvars, kern, bdc, like, pval, trav, leaf>>
  \/ TreeTraversal /\ UNCHANGED <<famvars, iovars, estvars, estimvars, kern, bdc, like, pval, branch, leaf>>
  \/ InitializeLeafLikelihoods /\ UNCHANGED <<famvars, iovars, estvars, estimvars, kern, bdc, like, pval, branch, trav>>

SpecTree == InitTree /\ [][NextTree]_vars

\* ==================================================================== claims
\* the species a call names: every species whose name equals the argument
\* case-insensitively
NamedBy(speciesname) ==
  {i \in 1..Len(species) : case_insensitive_equal(species[i], speciesname)}

AllSpecies == 1..Len(species)

\* C1: after set_error_matrix_from_file succeeds with a species name that
\* equals a species of the family case-insensitively, that species' error_ptr
\* entry and its tree leaf reference the model of the given file; with the
\* empty name (-all) every species and every leaf do.
C1_AttachReferencesModel ==
  (call.op = "set" /\ call.result = "ok") =>
    LET m == get_error_model(errors, call.file)
        S == IF call.sp = "" THEN AllSpecies ELSE NamedBy(call.sp)
    IN  /\ m # NULL
        /\ error_ptr # NoArray
        /\ \A i \in S : error_ptr[i] = m /\ errormodel[index[i]] = m

\* C2: every successful set_error_matrix_from_file call gives the species it
\* names (all of them for -all) the call's model and leaves the error_ptr
\* entry and the leaf of every other species unchanged, so that after any
\* sequence of calls each species references the model of the latest call
\* that named it.
C2_PerSpeciesCombination ==
  [][ (call'.op = "set" /\ call'.result = "ok") =>
        LET m == get_error_model(errors', call'.file)
            S == IF call'.sp = "" THEN AllSpecies ELSE NamedBy(call'.sp)
        IN  \A i \in AllSpecies :
              IF i \in S
                THEN error_ptr'[i] = m /\ errormodel'[index[i]] = m
                ELSE /\ error_ptr'[i] = (IF error_ptr = NoArray THEN NULL ELSE error_ptr[i])
                     /\ errormodel'[index[i]] = errormodel[index[i]] ]_vars

\* C3: remove_error_model sets the error_ptr entry and the leaf of the named
\* species to NULL, leaves every other species and the store unchanged, and
\* no attachment becomes NULL except in remove_error_model or free_error_model.
C3_DetachIsLocal ==
  [][ /\ call'.op = "remove" =>
           /\ errors' = errors
           /\ \A i \in AllSpecies :
                IF i \in NamedBy(call'.sp)
                  THEN /\ error_ptr' = NoArray \/ error_ptr'[i] = NULL
                       /\ errormodel'[index[i]] = NULL
                  ELSE /\ error_ptr' = error_ptr
                          \/ (error_ptr # NoArray /\ error_ptr'[i] = error_ptr[i])
                       /\ errormodel'[index[i]] = errormodel[index[i]]
      /\ (\E n \in Nodes : errormodel[n] # NULL /\ errormodel'[n] = NULL)
           => call'.op \in {"remove", "free"} ]_vars

\* the file can be read and some column of the resulting matrix does not sum to 1
BadColumnFile(filename) ==
  /\ Disk(filename) # Absent
  /\ LET rd == ReadErrorModel(Disk(filename), NewErrorStruct(filename, RangeMax), TRUE, 0)
     IN  rd.status = "ok" /\ check_error_model_columnsums(rd.em) # 0

\* C4: a file with a column that does not sum to 1 is rejected: its model is
\* neither added to the store nor attached to a species or a leaf.
C4_BadColumnRejected ==
  (call.op = "set" /\ BadColumnFile(call.file)) =>
    LET ids == IF errors = NoArray THEN {}
               ELSE {errors[k].id : k \in {l \in 1..Len(errors) : errors[l].em.errorfilename = call.file}}
    IN  /\ ids = {}
        /\ call.result # "ok"
        /\ \A n \in Nodes : errormodel[n] \notin ids

\* C9: after free_error_model no leaf of a species has an errormodel
\* reference and family->errors and family->error_ptr are NULL.
C9_FreeDetachesAll ==
  call.op = "free" =>
    /\ errors = NoArray
    /\ error_ptr = NoArray
    /\ \A i \in AllSpecies : errormodel[index[i]] = NULL

\* ------------------------------------------------------- reading and writing
\* a generated file: header, cntdiff line and data rows
DataFile(text) == Len(text) >= 3
BandCells(em) ==
  {c \in (0..em.maxfamilysize) \X (0..em.maxfamilysize) :
     em.fromdiff <= c[1] - c[2] /\ c[1] - c[2] <= em.todiff}

\* C5: every family size j in 1..maxcnt whose row is omitted gets the
\* distribution of the previous row: errormatrix[j+d][j] = errormatrix[j-1+d][j-1]
\* for every offset d of the file with both cells inside the matrix.
C5_OmittedRowsInherit ==
  (io_pc = "read" /\ DataFile(io_text) /\ 0 \in FilePresent(io_text)
     /\ FilePresent(io_text) \subseteq 0..FileMaxCnt(io_text)) =>
    \A j \in (1..FileMaxCnt(io_text)) \ FilePresent(io_text) :
      /\ io_read.status = "ok"
      /\ \A d \in FileFrom(io_text)..FileTo(io_text) :
           (0 <= j - 1 + d /\ j + d <= io_read.em.maxfamilysize) =>
             io_read.em.errormatrix[j + d][j] = io_read.em.errormatrix[j - 1 + d][j - 1]

\* C6: a file with only the maxcnt line, the cntdiff line and the rows of
\* family sizes 0 and 1 gives every family size j >= 1 the distribution of
\* row 1: errormatrix[j+d][j] is the value written for offset d in row 1.
C6_ShortcutFile ==
  (io_pc = "read" /\ DataFile(io_text) /\ FilePresent(io_text) = {0, 1}) =>
    /\ io_read.status = "ok"
    /\ \A j \in 1..io_read.em.maxfamilysize :
         \A d \in FileFrom(io_text)..FileTo(io_text) :
           (0 <= j + d /\ j + d <= io_read.em.maxfamilysize) =>
             io_read.em.errormatrix[j + d][j] = FileField(io_text, 1, d)

\* C7: a model with no missing rows that is written and read back into a
\* fresh ErrorStruct has the same maxfamilysize, fromdiff, todiff and the
\* same value in every cell errormatrix[j+d][j] of the band.
C7_RoundTrip ==
  (io_pc = "readback" /\ DataFile(io_text)
     /\ FilePresent(io_text) = 0..io_read.em.maxfamilysize) =>
    /\ io_read2.status = "ok"
    /\ io_read2.em.maxfamilysize = io_read.em.maxfamilysize
    /\ io_read2.em.fromdiff = io_read.em.fromdiff
    /\ io_read2.em.todiff = io_read.em.todiff
    /\ \A c \in BandCells(io_read.em) :
         io_read2.em.errormatrix[c[1]][c[2]] = io_read.em.errormatrix[c[1]][c[2]]

\* the file leaves out the row of some family size of the model read from
\* it, and the read stayed inside the matrix it allocated
MissingRows ==
  /\ DataFile(io_text)
  /\ (0..io_read.em.maxfamilysize) \ FilePresent(io_text) # {}
  /\ ~io_read.outside

AnyNegativeParameter(in) ==
  \E i \in DOMAIN in.parameters : in.parameters[i] < 0

\* 1 minus the probability mass of the parameters is negative
NegativeResidual(in) ==
  LET n == in.measure.model_parameter_number
      mass == IF in.measure.b_symmetric
                THEN in.parameters[0] + 2 * SumParameters(in.parameters, 1, n - 1)
                ELSE SumParameters(in.parameters, 0, n - 1)
  IN  10 - mass < 0

\* some parameter is larger than its neighbour on the side of the peak
NotMonotoneFromPeak(in) ==
  LET peak == IF in.measure.b_symmetric THEN 0 ELSE in.measure.model_parameter_diff
      dist(i) == IF i >= peak THEN i - peak ELSE peak - i
  IN  \E i, k \in DOMAIN in.parameters :
        /\ dist(k) = dist(i) + 1
        /\ (k = i + 1 \/ k = i - 1)
        /\ in.parameters[k] > in.parameters[i]

Rejected == est_out.cost = "inf" /\ ~est_out.built

\* C10 as stated: a negative parameter, a negative epsilon residual or
\* parameters not monotone-decreasing from the peak give +infinity cost and
\* no error matrix, whether or not the peak-zero flag is set.
C10_RejectionAlways ==
  (est_out # NoOut /\ (AnyNegativeParameter(est_in) \/ NegativeResidual(est_in)
                        \/ NotMonotoneFromPeak(est_in))) => Rejected

\* C10 amended: the monotonicity constraint is enforced only when the
\* peak-zero flag is set; negative parameters and a negative epsilon residual
\* are rejected whatever the flag.
C10_RejectionWithPeakZero ==
  (est_out # NoOut /\ (AnyNegativeParameter(est_in) \/ NegativeResidual(est_in)
                        \/ (est_in.measure.b_peakzero /\ NotMonotoneFromPeak(est_in)))) => Rejected

C10_Witness ==
  /\ est_out # NoOut /\ Rejected
  /\ est_in.measure.b_peakzero /\ NotMonotoneFromPeak(est_in)
  /\ ~est_in.measure.b_symmetric
  /\ ~BasicReject(est_in.measure, est_in.parameters)

\* ------------------------------------------------------------ restart loop
\* C11: the restart loop makes at most max_runs simplex runs, whatever the
\* runs return
C11_AtMostMaxRuns == run.nsimplex <= max_runs

\* a step of the loop: one more simplex run has been made
SimplexRunMade == run'.nsimplex = run.nsimplex + 1
Finite(x) == x # NaN /\ x # Inf
Distance(a, b) == IF a >= b THEN a - b ELSE b - a

\* C20 as stated: run n >= 2 sets converged exactly when its score is finite
\* and within tol_f of the score of run n-1
C20_SuccessiveRunsAgree ==
  [][ (SimplexRunMade /\ run.nsimplex >= 1)
        => ( (run'.converged = 1)
               <=> (Finite(run'.fv) /\ Finite(run.fv) /\ Distance(run.fv, run'.fv) < TolF) ) ]_vars

\* C20 amended: a run sets converged exactly when an earlier run has ended
\* below its iteration limit, its own score is finite and it is within tol_f
\* of minscore, the lowest score of the earlier runs that ended below their
\* iteration limit
C20_AgreesWithBest ==
  [][ SimplexRunMade
        => ( (run'.converged = 1)
               <=> (run.runs > 0 /\ Finite(run'.fv)
                      /\ Distance(run.minscore, run'.fv) < TolF) ) ]_vars

C20_Witness == run.converged = 1 /\ run.nsimplex >= 3 /\ run.at_limit >= 1

\* the lowest of the finite scores of S below DBL_MAX, 0 when there is none
LowestScore(S) ==
  LET F == { x \in S : x # NaN /\ x # Inf /\ x < DBL_MAX }
  IN  IF F = {} THEN 0 ELSE CHOOSE x \in F : \A y \in F : x <= y

LinesMismatch == Len(meas.file1.rows) # Len(meas.file2.rows)

ColumnsMismatch ==
  \E k \in 1..Len(meas.file2.rows), j \in 1..Len(meas.file1.rows) :
     Len(meas.file2.rows[k].values) # Len(meas.file1.rows[j].values)

IdsMismatch ==
  \E k \in 1..Len(meas.file1.rows) :
     k <= Len(meas.file2.rows) /\ meas.file1.rows[k].id # meas.file2.rows[k].id

ComparedCells ==
  { c \in (1..Len(meas.file1.rows)) \X (1..2) :
      c[1] <= Len(meas.file2.rows) /\ c[2] <= Len(meas.file1.rows[c[1]].values) }

\* the number of compared cells with measure 1 equal to a and measure 2 to b
CellsWith(a, b) ==
  Cardinality({ c \in ComparedCells :
                  /\ meas.file1.rows[c[1]].values[c[2]] = a
                  /\ meas.file2.rows[c[1]].values[c[2]] = b })

RECURSIVE SumOfPairs(_, _)
\* the sum of the entries of the pair matrix from entry n on, row by row
SumOfPairs(pairs, n) ==
  IF n >= Len(pairs) * Len(pairs) THEN 0
  ELSE pairs[(n \div Len(pairs)) + 1][(n % Len(pairs)) + 1] + SumOfPairs(pairs, n + 1)

\* C22: the pair matrix counted from two files is upper-triangular, an entry
\* above the diagonal counts the cells measured (j, i) or (i, j), a diagonal
\* entry the cells measured (i, i), and the entries sum to the number of
\* compared cells
C22_UpperTriangular ==
  meas.pc = "pairs" =>
    /\ Len(meas.observed_pairs) = meas.maxFamilySize + 1
    /\ \A i, j \in 0..meas.maxFamilySize :
         meas.observed_pairs[i + 1][j + 1] =
           IF j < i THEN 0
           ELSE IF j = i THEN CellsWith(i, i)
           ELSE CellsWith(i, j) + CellsWith(j, i)
    /\ SumOfPairs(meas.observed_pairs, 0) = Cardinality(ComparedCells)

C22_Witness ==
  /\ meas.pc = "pairs"
  /\ \E i, j \in 0..meas.maxFamilySize :
       i < j /\ CellsWith(i, j) >= 1 /\ CellsWith(j, i) >= 1
         /\ meas.observed_pairs[i + 1][j + 1] = 2

\* ---------------------------------------------------------------- the cache
KeyOf(node) == BirthDeathCacheKey(node.branchlength, node.lambda, node.mu)
Truncated(t) == (t \div TimeDen) * TimeDen

\* C13: a lookup returns the matrix computed for the truncated branch length,
\* and two lookups in a row with the same rates and the same truncated length
\* return the same matrix
C13_FractionalLengthsCollapse ==
  [][ (bdc'.last.op = "get")
        => /\ bdc'.last.matrix
                = compute_birthdeath_rates(Truncated(bdc'.last.branchlength), bdc'.last.lambda,
                                           bdc'.last.mu, bdc'.cache.maxFamilysize, <<1, 1>>)
           /\ (bdc.last.op = "get" /\ KeyOf(bdc.last) = KeyOf(bdc'.last))
                => bdc'.last.matrix = bdc.last.matrix ]_vars

C13_Witness ==
  /\ bdc.last.op = "get" /\ bdc.last.branchlength % TimeDen # 0
  /\ bdc.last.matrix # NoMatrix /\ Len(bdc.cache.entries) = 1

\* C14: no two entries of the cache have the same key, and a step that is not
\* a reset only appends: looking up a key that is present changes nothing
C14_OneEntryPerKey ==
  [][ /\ \A i, j \in 1..Len(bdc'.cache.entries) :
            bdc'.cache.entries[i].key = bdc'.cache.entries[j].key => i = j
      /\ (bdc'.last.op # "reset")
           => /\ Len(bdc'.cache.entries) >= Len(bdc.cache.entries)
              /\ SubSeq(bdc'.cache.entries, 1, Len(bdc.cache.entries)) = bdc.cache.entries
      /\ (bdc'.last.op = "get"
            /\ \E i \in 1..Len(bdc.cache.entries) : bdc.cache.entries[i].key = KeyOf(bdc'.last))
           => bdc'.cache = bdc.cache ]_vars

C14_Witness ==
  /\ bdc.last.op = "get" /\ Len(bdc.cache.entries) = MaxEntries
  /\ bdc.cache.entries[1].key = KeyOf(bdc.last)

\* C15: after a reset every non-root node with a branch length has the matrix
\* the cache holds for its branch length and rates, and the reset gives no
\* matrix to a node whose branch length is unset
C15_ResetAppliesCache ==
  [][ (bdc'.last.op = "reset")
        => \A n \in CacheNodes \ {0} :
             IF bdc'.tree[n].branchlength >= 0
             THEN /\ \E i \in 1..Len(bdc'.cache.entries) :
                       /\ bdc'.cache.entries[i].key = KeyOf(bdc'.tree[n])
                       /\ bdc'.cache.entries[i].matrix = bdc'.tree[n].birthdeath_matrix
                  /\ bdc'.tree[n].birthdeath_matrix
                       = birthdeath_cache_get_matrix(bdc'.cache, bdc'.tree[n].branchlength,
                                                     bdc'.tree[n].lambda, bdc'.tree[n].mu).matrix
             ELSE bdc'.tree[n].birthdeath_matrix = bdc.tree[n].birthdeath_matrix ]_vars

C15_Witness ==
  /\ bdc.last.op = "reset"
  /\ bdc.tree[1].branchlength < 0 /\ bdc.tree[1].birthdeath_matrix = NoMatrix
  /\ bdc.tree[2].branchlength > 0 /\ bdc.tree[2].birthdeath_matrix # NoMatrix

\* ------------------------------------------------------------- the pruning
ParentOf(tree, n) == CHOOSE p \in DOMAIN tree : \E k \in 1..Len(tree[p]) : tree[p][k] = n

RECURSIVE BranchProduct(_, _, _)
\* the product over the branches above the nodes n and after of the matrix
\* entry from the parent's size to the node's size
BranchProduct(in, sizes, n) ==
  IF n \notin DOMAIN in.tree THEN 1
  ELSE NodeMatrix(in.kind, n, in.max)[sizes[ParentOf(in.tree, n)]][sizes[n]]
         * BranchProduct(in, sizes, n + 1)

RECURSIVE SumOverAssignments(_, _)
SumOverAssignments(in, S) ==
  IF S = {} THEN 0
  ELSE LET sizes == CHOOSE x \in S : TRUE
       IN  BranchProduct(in, sizes, 1) + SumOverAssignments(in, S \ {sizes})

\* the sum over every assignment of sizes to the internal nodes, the root
\* having size r and the leaves their family sizes
BruteForce(in, r) ==
  LET internal == { n \in DOMAIN in.tree : n # 0 /\ in.tree[n] # <<>> }
  IN  SumOverAssignments(in,
        { [n \in DOMAIN in.tree |->
             IF n = 0 THEN r ELSE IF n \in internal THEN a[n] ELSE in.familysize[n]] :
          a \in [internal -> 0..in.max] })

\* C16: the root likelihoods of the pruning engine are the brute-force sums
C16_PruningIsBruteForce ==
  (like.likelihoods # <<>>)
    => \A r \in 0..like.in.max : like.likelihoods[r] = BruteForce(like.in, r)

C16_Witness ==
  /\ like.likelihoods # <<>> /\ Cardinality(DOMAIN like.in.tree) = 6
  /\ like.in.max = MaxSize
  /\ \E r \in 0..like.in.max : like.likelihoods[r] > 0

\* -------------------------------------------------------------- the kernel
RECURSIVE RowNumerators(_, _, _)
\* the sum of the entries j and after of row i, over the denominator of the
\* last entry of the row
RowNumerators(m, i, j) ==
  IF j >= m.size THEN 0
  ELSE m.values[i][j].num * (m.values[i][m.size - 1].den \div m.values[i][j].den)
         + RowNumerators(m, i, j + 1)

RowSum(m, i) == [num |-> RowNumerators(m, i, 0), den |-> m.values[i][m.size - 1].den]

KernelShape(m, max) ==
  /\ m.size = max + 1
  /\ \A i, j \in 0..max : m.values[i][j].num >= 0 /\ m.values[i][j].den > 0
  /\ m.values[0][0].num = m.values[0][0].den
  /\ \A j \in 1..max : m.values[0][j].num = 0

C18_PvalueCountsAtMost ==
  (pval.p.den # 0)
    => pval.p = [num |-> Cardinality({ i \in 1..Len(pval.conddist) : pval.conddist[i] <= pval.v }),
                 den |-> Len(pval.conddist)]

C18_Witness ==
  /\ pval.p.den = MaxDist /\ pval.p.num > 0 /\ pval.p.num < pval.p.den
  /\ \E i \in 1..Len(pval.conddist) : pval.conddist[i] = pval.v

\* ------------------------------------------------------- update_branchlength
\* C19: the update changes the branches with taxaid > 0 by the formula,
\* leaves the branches with taxaid < 0 alone and copies every previous length
\* into old_branchlength
C19_UpdateBranchLength ==
  [][ (branch.pc = "start" /\ branch'.pc = "updated")
        => \A i \in DOMAIN branch.branchlength :
             /\ (branch.taxaid[i] > 0)
                  => 2 * (branch'.branchlength[i] - branch.branchlength[i])
                       = branch.branchlength[i] * branch.multiplier * branch.t[branch.taxaid[i]]
             /\ (branch.taxaid[i] < 0) => branch'.branchlength[i] = branch.branchlength[i]
             /\ branch'.old_branchlength[i] * LenDen = branch.branchlength[i] ]_vars

\* ---------------------------------------------------------- tree traversal
\* the place of node n in the visits
VisitOf(n) == CHOOSE k \in 1..Len(trav.ids) : trav.ids[k] = n

\* C23: a traversal calls the visitor once per node; postfix visits every
\* child before its parent and the children of a node left to right, prefix
\* every parent before its children, infix the nodes by increasing id
C23_TraversalOrder ==
  trav.pc = "done" =>
    LET nodes == DOMAIN trav.children
    IN  /\ Len(trav.ids) = Cardinality(nodes)
        /\ \A n \in nodes : \E k \in 1..Len(trav.ids) : trav.ids[k] = n
        /\ \A n \in nodes : \A c \in 1..Len(trav.children[n]) :
             /\ trav.order = "postfix" => VisitOf(trav.children[n][c]) < VisitOf(n)
             /\ trav.order = "prefix" => VisitOf(n) < VisitOf(trav.children[n][c])
             /\ (trav.order = "postfix" /\ c > 1)
                  => VisitOf(trav.children[n][c - 1]) < VisitOf(trav.children[n][c])
        /\ trav.order = "infix" => \A k \in 1..Len(trav.ids) : trav.ids[k] = k - 1

\* the tree of the tests, traversed in postfix order
C23_Witness ==
  /\ trav.pc = "done" /\ trav.order = "postfix"
  /\ trav.ids = <<0, 2, 1, 4, 6, 5, 3, 8, 7>>

\* ------------------------------------------------------- leaf likelihoods
\* a call of the initialisation has been made
LeafInitialised == leaf'.calls = leaf.calls + 1

\* C24 as stated: with a count every row is 1 at the count and 0 elsewhere,
\* without one every entry of every row is 1
C24_LeafLikelihoods ==
  leaf.calls > 0 =>
    \A i \in 1..leaf.num_rows : \A j \in 0..(leaf.num_cols - 1) :
      leaf.matrix[i][j] = IF leaf.familysize < 0 \/ j = leaf.familysize THEN 1 ELSE 0

\* C24 amended: with a count every row is 1 at the count and 0 elsewhere;
\* without one every row is 1 below the range handed to the call and keeps
\* its earlier entries from the range on
C24_LeafLikelihoodsInRange ==
  [][ LeafInitialised =>
        \A i \in 1..leaf'.num_rows : \A j \in 0..(leaf'.num_cols - 1) :
          leaf'.matrix[i][j] =
            IF leaf'.familysize >= 0 THEN (IF j = leaf'.familysize THEN 1 ELSE 0)
            ELSE IF j < leaf'.range THEN 1 ELSE leaf.matrix[i][j] ]_vars

\* the second call of the test: no count, range 2 of 3 columns, after a call
\* with count 1
C24_Witness ==
  /\ leaf.calls = 2 /\ leaf.familysize = -1 /\ leaf.range = 2 /\ leaf.num_cols = 3
  /\ leaf.num_rows = 2
  /\ \A i \in 1..2 : leaf.matrix[i] = (0 :> 1 @@ 1 :> 1 @@ 2 :> 0)

\* ------------------------------------------------ operator>> on any file
\* C25: operator>> on a file whose data rows have the expected number of
\* fields returns, also when family-size rows are omitted between two rows
C25_ReadTerminates ==
  (io_pc = "read" /\ DataFile(io_text)) => io_read.status # "hang"

\* C26: operator>> writes no matrix cell outside rows and columns
\* 0..maxfamilysize
C26_WritesInside == io_pc = "read" => ~io_read.outside

\* ------------------------------------------------------ the store's shape
\* C27: the store holds at most one model per file name compared without
\* regard to case, and a call naming a loaded file adds no entry and reads
\* no file
C27_OneModelPerFile ==
  /\ [](errors # NoArray =>
         \A k, l \in 1..Len(errors) :
           case_insensitive_equal(errors[k].em.errorfilename, errors[l].em.errorfilename)
             => k = l)
  /\ [][ \A f \in FileNames :
           ( /\ call'.op = "set" /\ call'.file = f
             /\ errors # NoArray
             /\ \E k \in 1..Len(errors) :
                  to_lower(errors[k].em.errorfilename) = to_lower(f) )
             => (errors' = errors /\ allocated' = allocated /\ call'.result = "ok") ]_vars

C27_Witness ==
  /\ call.op = "set" /\ call.file = "ERR.TXT" /\ call.result = "ok"
  /\ errors # NoArray /\ Len(errors) = 1 /\ errors[1].em.errorfilename = "err.txt"
  /\ allocated = 1

\* C28: while error_ptr is allocated, the reference of every species is the
\* errormodel of its tree leaf, and a reference that is not NULL is a model
\* of the store
C28_PointersAgree ==
  error_ptr # NoArray =>
    \A i \in 1..Len(species) :
      /\ error_ptr[i] = errormodel[index[i]]
      /\ error_ptr[i] # NULL =>
           (errors # NoArray /\ \E k \in 1..Len(errors) : errors[k].id = error_ptr[i])

\* C29: whenever the store is allocated the reference array is allocated
C29_Lockstep == errors # NoArray => error_ptr # NoArray

C29_Witness ==
  /\ call.op = "remove" /\ errors # NoArray /\ error_ptr # NoArray
  /\ allocated = MaxLoads /\ \E i \in 1..Len(species) : error_ptr[i] = NULL

\* the add-one total of the table, as a whole number of any size
SmoothedTotal ==
  SumParameters([k \in 1..(meas.maxFamilySize + 1) |-> meas.sizeFreq[k - 1] + 1],
                1, meas.maxFamilySize + 1)

\* C30: get_size_probability_distribution add-one smooths and normalises:
\* for every table of non-negative size frequencies over 0..maxFamilySize the
\* call returns, and sizeDist[i] is (sizeFreq[i] + 1) over the sum of all
\* sizeFreq[k] + 1, so every entry is positive and the entries sum to 1.
C30_SmoothedDistribution ==
  /\ meas.pc # "trap"
  /\ meas.pc \in {"dist", "done"} =>
       /\ \A i \in 0..meas.maxFamilySize :
             LET d == meas.sizeDist[i]
             IN  /\ d.den # 0 /\ d.num * d.den > 0
                 /\ d.num * SmoothedTotal = (meas.sizeFreq[i] + 1) * d.den
       /\ SumParameters([k \in 1..(meas.maxFamilySize + 1) |-> meas.sizeDist[k - 1].num],
                        1, meas.maxFamilySize + 1) = meas.sizeDist[0].den
====
